---- MODULE Spec2Model ----
(***************************************************************************)
(* A model of src/lib/carGenetic.ts: the bit-number codec (decodeNumber),  *)
(* the genome decoder (decodeGenome, decodeNumbers), the formula evaluator *)
(* (engineFormula, wheelsFormula, linearPolynomial, sigmoid,               *)
(* sigmoidToCategorical) and the loss function (loss, distance).           *)
(*                                                                         *)
(* All functions of the file are pure.  A behaviour is one call: the       *)
(* initial state holds the arguments, the action of the called function    *)
(* stores what it returns or throws in `result`.                           *)
(*                                                                         *)
(* Numbers.  JavaScript numbers are modelled in fixed point:               *)
(*   - decoded coefficients and raw polynomial values are integers in      *)
(*     units of 1/Milli (the smallest decodable magnitude is 1 * 10^-3);   *)
(*   - sigmoid values and margins are integers in units of 1/One;          *)
(*   - coordinates are integers, distances and the loss are integers in    *)
(*     units of 1/Milli, rounded down.                                     *)
(***************************************************************************)
EXTENDS Integers, Sequences, FiniteSets, TLC

VARIABLES
    called,             \* "none", or the name of the function that ran
    genome,             \* argument of decodeGenome / engineFormula / wheelsFormula
    sensors,            \* argument of engineFormula / wheelsFormula
    genes,              \* argument of decodeNumber
    sigmoidValue,       \* argument of sigmoidToCategorical
    aroundZeroMargin,   \* argument of sigmoidToCategorical
    wheelsPosition,     \* argument of loss
    parkingLotCorners,  \* argument of loss
    result              \* what the call returned or threw

vars == <<called, genome, sensors, genes, sigmoidValue, aroundZeroMargin,
          wheelsPosition, parkingLotCorners, result>>

----------------------------------------------------------------------------
(* Program constants *)

CAR_SENSORS_NUM == 16

BIAS_UNITS == 1

GENES_PER_NUMBER == 8

SIGN_GENE_INDEX == 0

EXPONENT_GENE_INDEX == 1

FRACTION_GENE_INDEX == 4

EXPONENT_BIAS == 2 ^ (FRACTION_GENE_INDEX - EXPONENT_GENE_INDEX - 1) - 1

ENGINE_FORMULA_GENES_NUM == (CAR_SENSORS_NUM + BIAS_UNITS) * GENES_PER_NUMBER

WHEELS_FORMULA_GENES_NUM == (CAR_SENSORS_NUM + BIAS_UNITS) * GENES_PER_NUMBER

GENOME_LENGTH == ENGINE_FORMULA_GENES_NUM + WHEELS_FORMULA_GENES_NUM

ERR_NUMBERS == "Wrong number of genes in the numbers genome"

ERR_NUMBER == "Wrong number of genes in the number genome"

ERR_POLYNOMIAL == "Incompatible number polynomial coefficients and variables"

----------------------------------------------------------------------------
(* Fixed point and the outcome of a call *)

\* Coefficients and raw values are counted in thousandths: 10^-3 is the
\* smallest power of ten decodeNumber produces (exponent 0 - EXPONENT_BIAS).
Milli == 10 ^ 3

\* A normal return of value v.
Return(v) == [err |-> "", val |-> v]

\* A thrown Error with message e: no value is returned.
Throw(e) == [err |-> e]

Threw(r) == r.err # ""

Min(a, b) == IF a < b THEN a ELSE b

\* Array.prototype.slice(start, end) for 0 <= start <= end: both ends are
\* clamped to the array's length, indices are 0-based, end is exclusive.
Slice(arr, start, end) == SubSeq(arr, Min(start, Len(arr)) + 1, Min(end, Len(arr)))

----------------------------------------------------------------------------
(* Bit-number codec *)

RECURSIVE BinaryArrayToNumberFrom(_, _, _)
\* The reduce of binaryArrayToNumber from 0-based index geneIndex on, with
\* accumulator acc.
BinaryArrayToNumberFrom(arr, geneIndex, acc) ==
    IF geneIndex >= Len(arr) THEN acc
    ELSE BinaryArrayToNumberFrom(arr, geneIndex + 1,
            acc + arr[geneIndex + 1] * (2 ^ (Len(arr) - geneIndex - 1)))

RECURSIVE BinaryArrayToNumberLsbFirst(_)
\* Mutant of BinaryArrayToNumber: the weight of a gene is 2 ^ geneIndex.
BinaryArrayToNumberLsbFirst(arr) ==
    IF arr = <<>> THEN 0 ELSE arr[1] + 2 * BinaryArrayToNumberLsbFirst(Tail(arr))

BinaryArrayToNumber(arr) == BinaryArrayToNumberFrom(arr, 0, 0)

\* decodeNumber; the returned number is in units of 1/Milli, so
\* 10 ** exponent is 10 ^ (exponent + 3) of them.
DecodeNumber(block) ==
    IF Len(block) # GENES_PER_NUMBER THEN Throw(ERR_NUMBER)
    ELSE LET sign == IF block[SIGN_GENE_INDEX + 1] # 0 THEN -1 ELSE 1
             exponentGenes == Slice(block, EXPONENT_GENE_INDEX, FRACTION_GENE_INDEX)
             exponent == BinaryArrayToNumber(exponentGenes) - EXPONENT_BIAS
             fractionGenes == Slice(block, FRACTION_GENE_INDEX, Len(block))
             fraction == BinaryArrayToNumber(fractionGenes)
         IN  Return(sign * fraction * (10 ^ (exponent + 3)))

----------------------------------------------------------------------------
(* Genome decoder *)

\* The sub-blocks decodeNumbers' loop passes to decodeNumber, in order.
SubBlocks(block) ==
    [j \in 1..((Len(block) + GENES_PER_NUMBER - 1) \div GENES_PER_NUMBER) |->
        Slice(block, (j - 1) * GENES_PER_NUMBER, j * GENES_PER_NUMBER)]

RECURSIVE DecodeNumbersLoop(_, _, _)
\* The for loop of decodeNumbers: numberIndex is the 0-based gene index,
\* numbers the array pushed so far; decodeNumber's error ends the loop.
DecodeNumbersLoop(block, numberIndex, numbers) ==
    IF numberIndex >= Len(block) THEN Return(numbers)
    ELSE LET number == DecodeNumber(
                 Slice(block, numberIndex, numberIndex + GENES_PER_NUMBER))
         IN  IF Threw(number) THEN number
             ELSE DecodeNumbersLoop(block, numberIndex + GENES_PER_NUMBER,
                                    Append(numbers, number.val))

\* Mutant of DecodeNumbers: the check of the block's length is missing.
DecodeNumbersUnchecked(block) == DecodeNumbersLoop(block, 0, <<>>)

DecodeNumbers(block) ==
    IF Len(block) % GENES_PER_NUMBER # 0 THEN Throw(ERR_NUMBERS)
    ELSE DecodeNumbersLoop(block, 0, <<>>)

\* genome.slice(0, ENGINE_FORMULA_GENES_NUM)
EngineGenes(g) == Slice(g, 0, ENGINE_FORMULA_GENES_NUM)

\* Mutant of WheelsGenes: the end of the slice is the block's length, not
\* its end index.
WheelsGenesShortEnd(g) ==
    Slice(g, ENGINE_FORMULA_GENES_NUM, WHEELS_FORMULA_GENES_NUM)

\* genome.slice(ENGINE_FORMULA_GENES_NUM, ENGINE_FORMULA_GENES_NUM + WHEELS_FORMULA_GENES_NUM)
WheelsGenes(g) ==
    Slice(g, ENGINE_FORMULA_GENES_NUM,
          ENGINE_FORMULA_GENES_NUM + WHEELS_FORMULA_GENES_NUM)

DecodeGenome(g) ==
    LET engineFormulaCoefficients == DecodeNumbers(EngineGenes(g))
    IN  IF Threw(engineFormulaCoefficients) THEN engineFormulaCoefficients
        ELSE LET wheelsFormulaCoefficients == DecodeNumbers(WheelsGenes(g))
             IN  IF Threw(wheelsFormulaCoefficients) THEN wheelsFormulaCoefficients
                 ELSE Return([engineFormulaCoefficients |-> engineFormulaCoefficients.val,
                              wheelsFormulaCoefficients |-> wheelsFormulaCoefficients.val])

----------------------------------------------------------------------------
(* Formula evaluator *)

\* Sigmoid values and margins are counted in millionths.
One == 10 ^ 6

RECURSIVE LinearPolynomialFrom(_, _, _, _)
\* The forEach of linearPolynomial from 0-based index coefficientIndex on,
\* with the running value of `result` (in units of 1/Milli).
LinearPolynomialFrom(coefficients, variables, coefficientIndex, acc) ==
    IF coefficientIndex >= Len(coefficients) THEN acc
    ELSE LET coefficient == coefficients[coefficientIndex + 1]
         IN  LinearPolynomialFrom(coefficients, variables, coefficientIndex + 1,
                IF coefficientIndex < Len(variables)
                THEN acc + coefficient * variables[coefficientIndex + 1]
                ELSE acc + coefficient)

\* Mutant of LinearPolynomial: the check compares the two lengths without
\* the bias unit.
LinearPolynomialNoBiasUnit(coefficients, variables) ==
    IF Len(coefficients) # Len(variables) THEN Throw(ERR_POLYNOMIAL)
    ELSE Return(LinearPolynomialFrom(coefficients, variables, 0, 0))

\* Mutant of LinearPolynomial: the last coefficient is never added.
LinearPolynomialBiasDropped(coefficients, variables) ==
    IF Len(coefficients) # Len(variables) + 1 THEN Throw(ERR_POLYNOMIAL)
    ELSE Return(LinearPolynomialFrom(
                    SubSeq(coefficients, 1, Len(variables)), variables, 0, 0))

LinearPolynomial(coefficients, variables) ==
    IF Len(coefficients) # Len(variables) + 1 THEN Throw(ERR_POLYNOMIAL)
    ELSE Return(LinearPolynomialFrom(coefficients, variables, 0, 0))

\* Values of 1 / (1 + e^-x) at x >= 0, as <<x in 1/Milli, value in 1/One>>,
\* rounded down; 1.098 and 1.099 enclose ln 3, where the value crosses
\* 0.75, and from 37 on the double 1 + e^-x is 1.
SigmoidKnots ==
    << <<0, 500000>>, <<250, 562176>>, <<500, 622459>>, <<750, 679178>>,
       <<1000, 731058>>, <<1098, 749885>>, <<1099, 750072>>, <<1500, 817574>>,
       <<2000, 880797>>, <<3000, 952574>>, <<4000, 982013>>, <<5000, 993307>>,
       <<7000, 999088>>, <<10000, 999954>>, <<14000, 999999>>,
       <<37000, 1000000>> >>

\* 1 / (1 + e^-x) for x >= 0 in units of 1/Milli: linear between the
\* knots, 1 from the last knot on.
SigmoidOfNonNegative(x) ==
    LET n == Len(SigmoidKnots)
    IN  IF x >= SigmoidKnots[n][1] THEN SigmoidKnots[n][2]
        ELSE LET i == CHOOSE j \in 1..(n - 1) :
                          SigmoidKnots[j][1] <= x /\ x < SigmoidKnots[j + 1][1]
                 x0 == SigmoidKnots[i][1]
                 y0 == SigmoidKnots[i][2]
                 x1 == SigmoidKnots[i + 1][1]
                 y1 == SigmoidKnots[i + 1][2]
             IN  y0 + ((x - x0) * (y1 - y0)) \div (x1 - x0)

\* sigmoid: 1 / (1 + Math.E ** -x), x in units of 1/Milli, the value in
\* units of 1/One; 1 / (1 + e^x) = 1 - 1 / (1 + e^-x).
Sigmoid(x) ==
    IF x >= 0 THEN SigmoidOfNonNegative(x) ELSE One - SigmoidOfNonNegative(-x)

\* The default value of sigmoidToCategorical's aroundZeroMargin: 0.5.
DEFAULT_AROUND_ZERO_MARGIN == One \div 2

\* Mutant of SigmoidToCategorical: the bounds of the dead zone belong to
\* the outer categories.
SigmoidToCategoricalInclusive(value, margin) ==
    IF 2 * value >= One + margin THEN 1
    ELSE IF 2 * value <= One - margin THEN -1
    ELSE 0

\* sigmoidToCategorical; value > 0.5 + margin / 2 is compared with both
\* sides doubled, which keeps margin / 2 exact.
SigmoidToCategorical(value, margin) ==
    IF 2 * value > One + margin THEN 1
    ELSE IF 2 * value < One - margin THEN -1
    ELSE 0

\* The body shared by engineFormula and wheelsFormula once the formula's
\* coefficients are destructured from the decoded genome.
Formula(coefficients, sensorValues) ==
    LET rawResult == LinearPolynomial(coefficients, sensorValues)
    IN  IF Threw(rawResult) THEN rawResult
        ELSE LET normalizedResult == Sigmoid(rawResult.val)
                 categoricalResult ==
                     SigmoidToCategorical(normalizedResult, DEFAULT_AROUND_ZERO_MARGIN)
             IN  [err |-> "", val |-> categoricalResult,
                  rawResult |-> rawResult.val,
                  normalizedResult |-> normalizedResult]

\* Mutant of EngineFormula: it evaluates the wheels coefficients.
EngineFormulaOfWheels(g, sensorValues) ==
    LET decoded == DecodeGenome(g)
    IN  IF Threw(decoded) THEN decoded
        ELSE Formula(decoded.val.wheelsFormulaCoefficients, sensorValues)

EngineFormula(g, sensorValues) ==
    LET decoded == DecodeGenome(g)
    IN  IF Threw(decoded) THEN decoded
        ELSE Formula(decoded.val.engineFormulaCoefficients, sensorValues)

WheelsFormula(g, sensorValues) ==
    LET decoded == DecodeGenome(g)
    IN  IF Threw(decoded) THEN decoded
        ELSE Formula(decoded.val.wheelsFormulaCoefficients, sensorValues)

----------------------------------------------------------------------------
(* Loss function *)

RECURSIVE SqrtBetween(_, _, _)
\* The largest r with r * r <= n, given lo * lo <= n < hi * hi.
SqrtBetween(n, lo, hi) ==
    IF hi - lo <= 1 THEN lo
    ELSE LET mid == (lo + hi) \div 2
         IN  IF mid * mid <= n THEN SqrtBetween(n, mid, hi)
             ELSE SqrtBetween(n, lo, mid)

\* Math.sqrt of an integer n >= 0, in units of 1/Milli, rounded down.
Sqrt(n) == SqrtBetween(n * Milli * Milli, 0, (n + 1) * Milli)

\* Mutant of Distance: the vertical component is taken into account.
DistanceInSpace(from, to) ==
    Sqrt((from[1] - to[1]) ^ 2 + (from[2] - to[2]) ^ 2 + (from[3] - to[3]) ^ 2)

\* distance: points are <<x, y, z>>.
Distance(from, to) ==
    LET fromX == from[1]
        fromZ == from[3]
        toX == to[1]
        toZ == to[3]
    IN  Sqrt((fromX - toX) ^ 2 + (fromZ - toZ) ^ 2)

\* Mutant of Loss: the front wheels are compared with the opposite front
\* corners.
LossFrontCrossed(params) ==
    LET flDistance == Distance(params.wheelsPosition.fl, params.parkingLotCorners.fr)
        frDistance == Distance(params.wheelsPosition.fr, params.parkingLotCorners.fl)
        brDistance == Distance(params.wheelsPosition.br, params.parkingLotCorners.br)
        blDistance == Distance(params.wheelsPosition.bl, params.parkingLotCorners.bl)
    IN  [err |-> "",
         val |-> (flDistance + frDistance + brDistance + blDistance) \div 4,
         flDistance |-> flDistance, frDistance |-> frDistance,
         brDistance |-> brDistance, blDistance |-> blDistance]

\* loss; the mean is rounded down to a whole number of 1/Milli, and the
\* four distances it averages are kept beside the returned value.
Loss(params) ==
    LET flWheel == params.wheelsPosition.fl
        frWheel == params.wheelsPosition.fr
        brWheel == params.wheelsPosition.br
        blWheel == params.wheelsPosition.bl
        flCorner == params.parkingLotCorners.fl
        frCorner == params.parkingLotCorners.fr
        brCorner == params.parkingLotCorners.br
        blCorner == params.parkingLotCorners.bl
        flDistance == Distance(flWheel, flCorner)
        frDistance == Distance(frWheel, frCorner)
        brDistance == Distance(brWheel, brCorner)
        blDistance == Distance(blWheel, blCorner)
    IN  [err |-> "",
         val |-> (flDistance + frDistance + brDistance + blDistance) \div 4,
         flDistance |-> flDistance, frDistance |-> frDistance,
         brDistance |-> brDistance, blDistance |-> blDistance]

----------------------------------------------------------------------------
(* Arguments the calls are checked on *)

\* Extra genes beyond GENOME_LENGTH in the genomes of varying length.
MaxExtraGenes == 8

\* The 8-gene block whose genes spell n in binary, first gene most significant.
BlockOf(n) == [o \in 1..GENES_PER_NUMBER |-> (n \div (2 ^ (GENES_PER_NUMBER - o))) % 2]

AllBlocks == {BlockOf(n) : n \in 0..(2 ^ GENES_PER_NUMBER - 1)}

\* Blocks that fill the genes nobody singled out: 0, 1 and -0.002.
FillBlocks == {BlockOf(0), BlockOf(49), BlockOf(162)}

\* The genome of n genes whose k-th 8-gene block is `special` and whose
\* other genes repeat `fill` (k = 0: no special block).
GenomeOf(n, fill, k, special) ==
    [i \in 1..n |->
        LET b == ((i - 1) \div GENES_PER_NUMBER) + 1
            o == ((i - 1) % GENES_PER_NUMBER) + 1
        IN  IF b = k THEN special[o] ELSE fill[o]]

\* Genomes of every length from 0 to GENOME_LENGTH + MaxExtraGenes.
GenomesOfAnyLength ==
    {GenomeOf(n, fill, 0, fill) :
        n \in 0..(GENOME_LENGTH + MaxExtraGenes), fill \in FillBlocks}

\* Genomes of GENOME_LENGTH genes: every block value at every block position.
GenomesOfFullLength ==
    {GenomeOf(GENOME_LENGTH, fill, k, special) :
        fill \in {BlockOf(0), BlockOf(49)},
        k \in 1..(GENOME_LENGTH \div GENES_PER_NUMBER),
        special \in AllBlocks}

args == <<genome, sensors, genes, sigmoidValue, aroundZeroMargin,
          wheelsPosition, parkingLotCorners>>

NotCalled ==
    /\ called = "none"
    /\ result = [err |-> ""]

----------------------------------------------------------------------------
(* The calls *)

CallDecodeNumber ==
    /\ called = "none"
    /\ called' = "decodeNumber"
    /\ result' = DecodeNumber(genes)
    /\ UNCHANGED args

CallDecodeGenome ==
    /\ called = "none"
    /\ called' = "decodeGenome"
    /\ result' = DecodeGenome(genome)
    /\ UNCHANGED args

CallEngineFormula ==
    /\ called = "none"
    /\ called' = "engineFormula"
    /\ result' = EngineFormula(genome, sensors)
    /\ UNCHANGED args

CallWheelsFormula ==
    /\ called = "none"
    /\ called' = "wheelsFormula"
    /\ result' = WheelsFormula(genome, sensors)
    /\ UNCHANGED args

CallSigmoidToCategorical ==
    /\ called = "none"
    /\ called' = "sigmoidToCategorical"
    /\ result' = Return(SigmoidToCategorical(sigmoidValue, aroundZeroMargin))
    /\ UNCHANGED args

CallLoss ==
    /\ called = "none"
    /\ called' = "loss"
    /\ result' = Loss([wheelsPosition |-> wheelsPosition,
                       parkingLotCorners |-> parkingLotCorners])
    /\ UNCHANGED args

----------------------------------------------------------------------------
(* Specification of the codec: decodeNumber on every block of 8 genes and *)
(* on blocks of other lengths.                                            *)

MaxBlockLen == 9

BlocksOfAnyLength ==
    UNION {[1..n -> {0, 1}] : n \in 0..MaxBlockLen}

InitCodec ==
    /\ NotCalled
    /\ genes \in BlocksOfAnyLength
    /\ genome = <<>>
    /\ sensors = <<>>
    /\ sigmoidValue = 0
    /\ aroundZeroMargin = 0
    /\ wheelsPosition = <<>>
    /\ parkingLotCorners = <<>>

NextCodec == CallDecodeNumber

SpecCodec == InitCodec /\ [][NextCodec]_vars

----------------------------------------------------------------------------
(* Specification of the genome decoder: decodeGenome on genomes of every  *)
(* length and on full-length genomes of varied content.                   *)

InitGenome ==
    /\ NotCalled
    /\ genome \in GenomesOfAnyLength \cup GenomesOfFullLength
    /\ sensors = <<>>
    /\ genes = <<>>
    /\ sigmoidValue = 0
    /\ aroundZeroMargin = 0
    /\ wheelsPosition = <<>>
    /\ parkingLotCorners = <<>>

NextGenome == CallDecodeGenome

SpecGenome == InitGenome /\ [][NextGenome]_vars

----------------------------------------------------------------------------
(* Specification of the formula evaluator: engineFormula and wheelsFormula *)
(* on genomes and sensor lists of right and wrong lengths.                 *)

\* Extra sensor values beyond CAR_SENSORS_NUM in the lists of varying length.
MaxExtraSensors == 2

\* Sensor readings are 0..MaxSensorValue.
MaxSensorValue == 2

\* Blocks singled out in a genome: 0, 0.001, 0.1, 1, 2, -1, 150000, -150000.
FormulaBlocks ==
    {BlockOf(n) : n \in {0, 1, 33, 49, 50, 177, 127, 255}}

\* Block positions singled out: the first, second and last weight and the
\* bias of each formula.
FormulaPositions ==
    LET n == CAR_SENSORS_NUM + BIAS_UNITS
    IN  {1, 2, n - 1, n, n + 1, n + 2, 2 * n - 1, 2 * n}

GenomesForFormula ==
    {GenomeOf(GENOME_LENGTH, fill, k, special) :
        fill \in {BlockOf(0), BlockOf(49)},
        k \in FormulaPositions,
        special \in FormulaBlocks}

SensorsOfAnyLength ==
    {[j \in 1..m |-> v] :
        m \in 0..(CAR_SENSORS_NUM + MaxExtraSensors), v \in 0..MaxSensorValue}

\* CAR_SENSORS_NUM readings, all 0 but one.
SensorsOneHot ==
    {[j \in 1..CAR_SENSORS_NUM |-> IF j = hot THEN v ELSE 0] :
        hot \in 1..CAR_SENSORS_NUM, v \in 1..MaxSensorValue}

InitFormula ==
    /\ NotCalled
    /\ \/ /\ genome \in GenomesForFormula
          /\ sensors \in SensorsOfAnyLength \cup SensorsOneHot
       \/ /\ genome \in {GenomeOf(n, BlockOf(49), 0, BlockOf(49)) :
                            n \in 0..(GENOME_LENGTH + MaxExtraGenes)}
          /\ sensors \in SensorsOfAnyLength
    /\ genes = <<>>
    /\ sigmoidValue = 0
    /\ aroundZeroMargin = 0
    /\ wheelsPosition = <<>>
    /\ parkingLotCorners = <<>>

NextFormula == CallEngineFormula \/ CallWheelsFormula

SpecFormula == InitFormula /\ [][NextFormula]_vars

----------------------------------------------------------------------------
(* Specification of the two formulas side by side: full-length genomes    *)
(* with one block singled out, sensor lists of 15 to 17 equal readings or *)
(* of 16 readings with one reading singled out.                           *)

SensorsNearFullLength ==
    {[j \in 1..m |-> v] :
        m \in (CAR_SENSORS_NUM - 1)..(CAR_SENSORS_NUM + 1), v \in 0..MaxSensorValue}

SensorsOneHotAtEnds ==
    {[j \in 1..CAR_SENSORS_NUM |-> IF j = hot THEN v ELSE 0] :
        hot \in {1, 2, CAR_SENSORS_NUM}, v \in 1..MaxSensorValue}

InitHalves ==
    /\ NotCalled
    /\ genome \in GenomesForFormula
    /\ sensors \in SensorsNearFullLength \cup SensorsOneHotAtEnds
    /\ genes = <<>>
    /\ sigmoidValue = 0
    /\ aroundZeroMargin = 0
    /\ wheelsPosition = <<>>
    /\ parkingLotCorners = <<>>

NextHalves == CallEngineFormula \/ CallWheelsFormula

SpecHalves == InitHalves /\ [][NextHalves]_vars

----------------------------------------------------------------------------
(* Specification of the thresholding: sigmoidToCategorical on a grid of   *)
(* values around [0, 1] and on the bounds of the dead zone, with the      *)
(* default margin and with others.                                        *)

\* The grid has SigmoidGrid steps between 0 and 1.
SigmoidGrid == 100

SigmoidValues ==
    {k * (One \div SigmoidGrid) : k \in -2..(SigmoidGrid + 2)}
        \cup {240000, 249999, 250000, 250001, 500000, 600000,
              749999, 750000, 750001, 760000}

Margins == {DEFAULT_AROUND_ZERO_MARGIN, 0, One \div 5, One}

InitCategorical ==
    /\ NotCalled
    /\ sigmoidValue \in SigmoidValues
    /\ aroundZeroMargin \in Margins
    /\ genome = <<>>
    /\ sensors = <<>>
    /\ genes = <<>>
    /\ wheelsPosition = <<>>
    /\ parkingLotCorners = <<>>

NextCategorical == CallSigmoidToCategorical

SpecCategorical == InitCategorical /\ [][NextCategorical]_vars

----------------------------------------------------------------------------
(* Specification of the loss: parking lots and, for each wheel, an offset *)
(* from its corner.                                                       *)

\* Vertical offsets of a wheel from its corner are 0..MaxY.
MaxY == 1

\* The rectangle of width w and length l with back-left corner <<x, y, z>>.
Rectangle(x, y, z, w, l) ==
    [fl |-> <<x, y, z + l>>, fr |-> <<x + w, y, z + l>>,
     br |-> <<x + w, y, z>>, bl |-> <<x, y, z>>]

ParkingLots == {Rectangle(0, 0, 0, 2, 4), Rectangle(-3, 1, 2, 2, 5)}

Offsets ==
    {<<d[1], dy, d[2]>> :
        d \in {<<0, 0>>, <<3, 4>>, <<3, 0>>, <<1, -2>>}, dy \in 0..MaxY}

Shifted(point, offset) ==
    <<point[1] + offset[1], point[2] + offset[2], point[3] + offset[3]>>

InitLoss ==
    /\ NotCalled
    /\ parkingLotCorners \in ParkingLots
    /\ \E ofl \in Offsets, ofr \in Offsets, obr \in Offsets, obl \in Offsets :
          wheelsPosition = [fl |-> Shifted(parkingLotCorners.fl, ofl),
                            fr |-> Shifted(parkingLotCorners.fr, ofr),
                            br |-> Shifted(parkingLotCorners.br, obr),
                            bl |-> Shifted(parkingLotCorners.bl, obl)]
    /\ genome = <<>>
    /\ sensors = <<>>
    /\ genes = <<>>
    /\ sigmoidValue = 0
    /\ aroundZeroMargin = 0

NextLoss == CallLoss

SpecLoss == InitLoss /\ [][NextLoss]_vars

----------------------------------------------------------------------------
(* Claims about the codec *)

\* The number the layout sign / exponent / fraction assigns to a block of
\* 8 genes, in units of 1/Milli: sign x fraction x 10^(exponent - 3).
LayoutNumber(b) ==
    LET sign == IF b[1] = 0 THEN 1 ELSE -1
        exponent == 4 * b[2] + 2 * b[3] + b[4]
        fraction == 8 * b[5] + 4 * b[6] + 2 * b[7] + b[8]
    IN  sign * fraction * (10 ^ exponent) * (Milli \div 1000)

\* C3: for each of the 256 blocks b of 8 genes, decodeNumber(b) returns
\* sign x fraction x 10^(exponent - 3) with sign from b[0], exponent from
\* b[1..3] (weights 4,2,1) and fraction from b[4..7] (weights 8,4,2,1);
\* [0,0,0,0,0,0,0,1] decodes to 0.001 and [1,1,1,1,1,1,1,1] to -150000.
C3_DecodeNumberLayout ==
    (called = "decodeNumber" /\ Len(genes) = GENES_PER_NUMBER) =>
        /\ ~Threw(result)
        /\ result.val = LayoutNumber(genes)
        /\ genes = <<0, 0, 0, 0, 0, 0, 0, 1>> => result.val * 1000 = Milli
        /\ genes = <<1, 1, 1, 1, 1, 1, 1, 1>> => result.val = -150000 * Milli

C3_Witness ==
    /\ called = "decodeNumber"
    /\ genes = <<1, 1, 1, 1, 1, 1, 1, 1>>
    /\ ~Threw(result)
    /\ result.val = -150000 * Milli

----------------------------------------------------------------------------
(* Claims about the genome decoder *)

\* C1: decodeGenome raises an error for every genome whose length is not
\* GENOME_LENGTH (272), whether shorter or longer.
C1_WrongLengthRaises ==
    (called = "decodeGenome" /\ Len(genome) # GENOME_LENGTH) => Threw(result)

\* C2: for every genome of exactly 272 genes decodeGenome raises no error
\* and returns exactly 17 engine and exactly 17 wheels coefficients.
C2_FullLengthDecodes ==
    (called = "decodeGenome" /\ Len(genome) = GENOME_LENGTH) =>
        /\ ~Threw(result)
        /\ Len(result.val.engineFormulaCoefficients) = CAR_SENSORS_NUM + BIAS_UNITS
        /\ Len(result.val.wheelsFormulaCoefficients) = CAR_SENSORS_NUM + BIAS_UNITS
        /\ CAR_SENSORS_NUM + BIAS_UNITS = 17
        /\ GENOME_LENGTH = 272

C2_Witness ==
    /\ called = "decodeGenome"
    /\ Len(genome) = 272
    /\ \E i \in 1..272 : genome[i] = 1
    /\ ~Threw(result)
    /\ Len(result.val.wheelsFormulaCoefficients) = 17

\* C10: through decodeGenome the error of decodeNumber ('... the number
\* genome') is never raised: for each of the two blocks, decodeNumbers
\* either raises the block error or passes only sub-blocks of 8 genes.
C10_NumberErrorUnreachable ==
    called = "decodeGenome" =>
        /\ result.err # ERR_NUMBER
        /\ \A block \in {EngineGenes(genome), WheelsGenes(genome)} :
              \/ DecodeNumbers(block) = Throw(ERR_NUMBERS)
              \/ /\ ~Threw(DecodeNumbers(block))
                 /\ \A j \in DOMAIN SubBlocks(block) :
                       Len(SubBlocks(block)[j]) = GENES_PER_NUMBER

C10_Witness ==
    /\ called = "decodeGenome"
    /\ Len(genome) = ENGINE_FORMULA_GENES_NUM + 1
    /\ Len(SubBlocks(WheelsGenes(genome))[1]) = 1
    /\ result = Throw(ERR_NUMBERS)

----------------------------------------------------------------------------
(* Claims about the formula evaluator *)

FormulaCalled == called \in {"engineFormula", "wheelsFormula"}

\* The coefficients the called formula evaluates, when the genome decodes.
OwnCoefficients ==
    IF called = "engineFormula"
    THEN DecodeGenome(genome).val.engineFormulaCoefficients
    ELSE DecodeGenome(genome).val.wheelsFormulaCoefficients

\* C4: when the number of coefficients is not the number of sensor values
\* plus one, the formula raises the polynomial error and returns no
\* category; for a genome of 272 genes, engineFormula and wheelsFormula
\* raise it for every sensor list whose length is not 16.
C4_LengthMismatchRaises ==
    /\ (FormulaCalled /\ ~Threw(DecodeGenome(genome))
            /\ Len(OwnCoefficients) # Len(sensors) + 1)
          => result = Throw(ERR_POLYNOMIAL)
    /\ (FormulaCalled /\ Len(genome) = 272 /\ Len(sensors) # 16)
          => result = Throw(ERR_POLYNOMIAL)

C4_Witness ==
    /\ called = "wheelsFormula"
    /\ Len(genome) = 272
    /\ Len(sensors) = 17
    /\ result = Throw(ERR_POLYNOMIAL)

RECURSIVE WeightedSum(_, _, _)
\* coefficients[0] x sensors[0] + ... + coefficients[n-1] x sensors[n-1]
WeightedSum(coefficients, values, n) ==
    IF n = 0 THEN 0
    ELSE coefficients[n] * values[n] + WeightedSum(coefficients, values, n - 1)

AllZero(values) == \A j \in DOMAIN values : values[j] = 0

\* C6: the raw value is the sum of coefficients[i] x sensors[i] over the
\* sensors plus the last coefficient, added once and multiplied by nothing;
\* with all sensors 0 the raw value is the bias, and with the bias 0 too
\* the raw value is 0 and the category is 0.
C6_RawValueIsSumPlusBias ==
    (FormulaCalled /\ ~Threw(result)) =>
        LET own == OwnCoefficients
            bias == own[Len(sensors) + 1]
        IN  /\ result.rawResult = WeightedSum(own, sensors, Len(sensors)) + bias
            /\ AllZero(sensors) => result.rawResult = bias
            /\ (AllZero(sensors) /\ bias = 0) =>
                   (result.rawResult = 0 /\ result.val = 0)

\* 16 weights of 1, bias 0, 16 sensors at 0: raw 0, category 0.
C6_Witness ==
    /\ called = "engineFormula"
    /\ ~Threw(result)
    /\ Len(sensors) = 16
    /\ AllZero(sensors)
    /\ \A i \in 1..16 : OwnCoefficients[i] = Milli
    /\ OwnCoefficients[17] = 0
    /\ result.rawResult = 0
    /\ result.val = 0

\* Genes that replace one half of a genome: a half of one repeated block,
\* or such a half with one block singled out.
OtherHalves ==
    LET n == CAR_SENSORS_NUM + BIAS_UNITS
    IN  {GenomeOf(n * GENES_PER_NUMBER, BlockOf(fill), k, BlockOf(255)) :
            fill \in {0, 127}, k \in {0, 1, n}}

\* C7: engineFormula depends only on genes 0..135 and wheelsFormula only on
\* genes 136..271: genomes of 272 genes that agree on the formula's own half
\* give the same result for the same sensors; coefficient i of a formula is
\* decoded from the i-th 8-gene sub-block of its own half.
C7_FormulaReadsOwnHalf ==
    (FormulaCalled /\ Len(genome) = 272) =>
        /\ called = "engineFormula" =>
              \A half \in OtherHalves :
                  EngineFormula(SubSeq(genome, 1, 136) \o half, sensors) = result
        /\ called = "wheelsFormula" =>
              \A half \in OtherHalves :
                  WheelsFormula(half \o SubSeq(genome, 137, 272), sensors) = result
        /\ LET own == OwnCoefficients
               start == IF called = "engineFormula" THEN 0 ELSE 136
           IN  /\ Len(own) = 17
               /\ \A i \in 1..17 :
                     own[i] = LayoutNumber(
                         SubSeq(genome, start + 8 * (i - 1) + 1, start + 8 * i))

\* The engine's result survives a change of the wheels half that changes
\* the wheels' result.
C7_Witness ==
    /\ called = "engineFormula"
    /\ Len(genome) = 272
    /\ ~Threw(result)
    /\ result.val = 1
    /\ \E half \in OtherHalves :
          /\ half # SubSeq(genome, 137, 272)
          /\ WheelsFormula(SubSeq(genome, 1, 136) \o half, sensors)
                 # WheelsFormula(genome, sensors)
          /\ EngineFormula(SubSeq(genome, 1, 136) \o half, sensors) = result

----------------------------------------------------------------------------
(* Claims about the thresholding *)

\* C5: sigmoidToCategorical returns -1, 0 or +1; with the default margin
\* 0.5 it returns +1 exactly above 0.75, -1 exactly below 0.25 and 0
\* otherwise, so 0.25, 0.5 and 0.75 map to 0 (0.76 to +1, 0.24 to -1,
\* 0.6 to 0).
C5_Thresholds ==
    called = "sigmoidToCategorical" =>
        /\ ~Threw(result)
        /\ result.val \in {-1, 0, 1}
        /\ aroundZeroMargin = One \div 2 =>
              /\ result.val = 1 <=> 4 * sigmoidValue > 3 * One
              /\ result.val = -1 <=> 4 * sigmoidValue < One
              /\ sigmoidValue \in {250000, 500000, 600000, 750000} => result.val = 0
              /\ sigmoidValue = 760000 => result.val = 1
              /\ sigmoidValue = 240000 => result.val = -1

C5_Witness ==
    /\ called = "sigmoidToCategorical"
    /\ aroundZeroMargin = One \div 2
    /\ sigmoidValue = 750000
    /\ result.val = 0

----------------------------------------------------------------------------
(* Claims about the loss *)

Labels == {"fl", "fr", "br", "bl"}

\* r is the distance on the XZ plane between p and q, in units of 1/Milli,
\* rounded down.
IsPlanarDistance(r, p, q) ==
    LET squared == ((p[1] - q[1]) ^ 2 + (p[3] - q[3]) ^ 2) * Milli * Milli
    IN  r >= 0 /\ r * r <= squared /\ squared < (r + 1) * (r + 1)

\* C8: loss is the mean of the four planar distances between same-labelled
\* points, is never negative, is 0 when the wheels are on the corners and
\* 5 when every wheel is offset from its corner by 3 in x and 4 in z.
C8_LossIsMeanDistance ==
    called = "loss" =>
        LET sum == result.flDistance + result.frDistance
                     + result.brDistance + result.blDistance
        IN  /\ IsPlanarDistance(result.flDistance, wheelsPosition.fl, parkingLotCorners.fl)
            /\ IsPlanarDistance(result.frDistance, wheelsPosition.fr, parkingLotCorners.fr)
            /\ IsPlanarDistance(result.brDistance, wheelsPosition.br, parkingLotCorners.br)
            /\ IsPlanarDistance(result.blDistance, wheelsPosition.bl, parkingLotCorners.bl)
            /\ 4 * result.val <= sum
            /\ sum < 4 * result.val + 4
            /\ result.val >= 0
            /\ wheelsPosition = parkingLotCorners => result.val = 0
            /\ (\A l \in Labels :
                    /\ wheelsPosition[l][1] - parkingLotCorners[l][1] = 3
                    /\ wheelsPosition[l][3] - parkingLotCorners[l][3] = 4)
                  => result.val = 5 * Milli

C8_Witness ==
    /\ called = "loss"
    /\ \A l \in Labels :
          /\ wheelsPosition[l][1] - parkingLotCorners[l][1] = 3
          /\ wheelsPosition[l][3] - parkingLotCorners[l][3] = 4
    /\ \E l \in Labels : wheelsPosition[l][2] # parkingLotCorners[l][2]
    /\ result.val = 5 * Milli

\* The rectangle with every vertical component replaced by y.
AtHeight(points, y) ==
    [l \in Labels |-> <<points[l][1], y, points[l][3]>>]

\* C9: loss does not depend on the vertical components: the same x and z
\* components with other y components give the same value.
C9_LossIgnoresY ==
    called = "loss" =>
        \A yWheels \in -1..(MaxY + 1), yCorners \in -1..(MaxY + 1) :
            Loss([wheelsPosition |-> AtHeight(wheelsPosition, yWheels),
                  parkingLotCorners |-> AtHeight(parkingLotCorners, yCorners)]).val
                = result.val

C9_Witness ==
    /\ called = "loss"
    /\ result.val > 0
    /\ wheelsPosition.fl[2] # wheelsPosition.fr[2]
    /\ wheelsPosition.br[2] # parkingLotCorners.br[2]
    /\ Loss([wheelsPosition |-> AtHeight(wheelsPosition, -1),
             parkingLotCorners |-> AtHeight(parkingLotCorners, MaxY + 1)]).val
           = result.val

====
